---- MODULE Spec2Model ----
(***************************************************************************)
(* Model of the answer parser of the chat frontend,                        *)
(* src/frontend/src/components/Answer/AnswerParser.tsx.                    *)
(*                                                                         *)
(* The file carries three copies of the module one after the other:        *)
(*   lines   1-193  parseAnswer with the fallback that reads the top-level *)
(*                  `citations` array (keys docID / pageSource / URL),     *)
(*   lines 195-431  parseAnswer with the fallback that walks               *)
(*                  choices[].messages[] for role "tool" (debugLog),       *)
(*   lines 433-641  the same as the second copy, tracing with console.log. *)
(* Each copy is modelled by its own operator and its own action; the       *)
(* suffix of a name is the first line of the function in the file.         *)
(*                                                                         *)
(* Around the parser the model has the chat page that feeds it             *)
(* (Chat.tsx: the message state of a request, parsePlotFromMessage) and    *)
(* the responses the backend formats (backend/utils.py), as the            *)
(* documentation of the repository quotes them.                            *)
(*                                                                         *)
(* Encoding of JavaScript values                                           *)
(*   string            sequence of one-character strings                   *)
(*   optional value    <<>> for null/undefined, <<v>> for a value v        *)
(*   array / object    record [kind, items]; kind tells what                *)
(*                     Array.isArray / typeof see                          *)
(***************************************************************************)
EXTENDS Integers, Sequences, FiniteSets

VARIABLES
    segments,   \* the pieces the answer text was assembled from (input side)
    answer,     \* the AskResponse handed to parseAnswer
    pc,         \* "ready": not parsed yet, "done": parseAnswer has returned/thrown
    impl,       \* which copy of parseAnswer ran (0 before the call)
    result,     \* what the call produced
    calls,      \* the calls made so far: the payload handed over and the result
    response,   \* chat page: the messages of the response being delivered
    assistantMessage,   \* Chat.tsx, component-level variable
    toolMessage,        \* Chat.tsx, component-level variable
    turns,      \* chat page: per request, the response and what was kept of it
    inFlight,   \* chat page: the requests started and not yet finished
    ENABLE_CITATION_DEBUG,  \* window.ENABLE_CITATION_DEBUG, the tracing flag
    console     \* the banner lines the calls of parseAnswer wrote to the console

vars == <<segments, answer, pc, impl, result, calls,
          response, assistantMessage, toolMessage, turns, inFlight,
          ENABLE_CITATION_DEBUG, console>>

\* The variables of the chat page and those of the parser.
chatVars == <<response, assistantMessage, toolMessage, turns, inFlight>>

parserVars == <<segments, answer, impl, result, calls>>

\* The tracing flag and what tracing wrote.
debugVars == <<ENABLE_CITATION_DEBUG, console>>

-----------------------------------------------------------------------------
(* Bounds of the input space *)

MaxSegments == 3    \* pieces of answer text
MaxPool == 2        \* entries of the top-level citations array
MaxMsgs == 2        \* messages of a choice
MaxCalls == 3       \* calls of parseAnswer in one session
MaxRequests == 3    \* API requests of one chat session
MaxInFlight == 2    \* API requests under way at once

-----------------------------------------------------------------------------
(* Strings *)

Digits == <<"0", "1", "2", "3", "4", "5", "6", "7", "8", "9">>

IsDigit(c) == \E i \in 1..10 : Digits[i] = c

DigitVal(c) == (CHOOSE i \in 1..10 : Digits[i] = c) - 1

None == <<>>

Some(v) == <<v>>

\* a ?? b
Coalesce(a, b) == IF a = None THEN b ELSE a

SeqsUpTo(S, n) == UNION {[1..k -> S] : k \in 0..n}

\* Number(s) for a string of decimal digits.
RECURSIVE Number(_)
Number(s) ==
    IF s = <<>> THEN 0
    ELSE Number(SubSeq(s, 1, Len(s) - 1)) * 10 + DigitVal(s[Len(s)])

\* n.toString() / String(n) for a natural number.
RECURSIVE NumToString(_)
NumToString(n) ==
    IF n < 10 THEN <<Digits[n + 1]>>
    ELSE NumToString(n \div 10) \o <<Digits[(n % 10) + 1]>>

\* JSON.stringify({ page: n })
StringifyPage(n) ==
    <<"{", "\"", "p", "a", "g", "e", "\"", ":">> \o NumToString(n) \o <<"}">>

RECURSIVE DigitRun(_, _)
DigitRun(t, i) ==
    IF i <= Len(t) /\ IsDigit(t[i]) THEN 1 + DigitRun(t, i + 1) ELSE 0

\* Length of the match of /\[(doc\d\d?\d?)]/ anchored at position i, 0 if none.
MatchLen(t, i) ==
    IF i + 3 <= Len(t) /\ SubSeq(t, i, i + 3) = <<"[", "d", "o", "c">>
    THEN LET n == DigitRun(t, i + 4)
         IN  IF n \in 1..3 /\ i + 4 + n <= Len(t) /\ t[i + 4 + n] = "]"
             THEN n + 5
             ELSE 0
    ELSE 0

\* answerText.match(/\[(doc\d\d?\d?)]/g), scanning from position i;
\* the null of "no match" is the empty sequence (citationLinks?.forEach).
RECURSIVE MatchLinksFrom(_, _)
MatchLinksFrom(t, i) ==
    IF i > Len(t) THEN <<>>
    ELSE LET m == MatchLen(t, i)
         IN  IF m > 0
             THEN <<SubSeq(t, i, i + m - 1)>> \o MatchLinksFrom(t, i + m)
             ELSE MatchLinksFrom(t, i + 1)

MatchLinks(t) == MatchLinksFrom(t, 1)

\* String.prototype.replaceAll(pat, rep) for a non-empty string pattern.
RECURSIVE ReplaceAllFrom(_, _, _, _)
ReplaceAllFrom(t, pat, rep, i) ==
    IF i > Len(t) THEN <<>>
    ELSE IF i + Len(pat) - 1 <= Len(t) /\ SubSeq(t, i, i + Len(pat) - 1) = pat
         THEN rep \o ReplaceAllFrom(t, pat, rep, i + Len(pat))
         ELSE <<t[i]>> \o ReplaceAllFrom(t, pat, rep, i + 1)

ReplaceFirstOnly(t, pat, rep) ==
    IF \E i \in 1..Len(t) : i + Len(pat) - 1 <= Len(t) /\ SubSeq(t, i, i + Len(pat) - 1) = pat
    THEN LET i == CHOOSE j \in 1..Len(t) :
                    /\ j + Len(pat) - 1 <= Len(t)
                    /\ SubSeq(t, j, j + Len(pat) - 1) = pat
                    /\ \A h \in 1..(j - 1) : SubSeq(t, h, h + Len(pat) - 1) # pat
         IN  SubSeq(t, 1, i - 1) \o rep \o SubSeq(t, i + Len(pat), Len(t))
    ELSE t

ReplaceAll(t, pat, rep) == ReplaceAllFrom(t, pat, rep, 1)

\* A placeholder that is itself a marker.
PlaceholderIsMarker(k) == <<"[", "d", "o", "c">> \o NumToString(k) \o <<"]">>

\* ` ^${k}^ `
Placeholder(k) == <<" ", "^">> \o NumToString(k) \o <<"^", " ">>

-----------------------------------------------------------------------------
(* Values of the payload *)

Str_x == <<"x">>

Str_f1 == <<"f", "1">>

Str_f2 == <<"f", "2">>

Str_pf == <<"p", "f">>

Str_d1 == <<"d", "1">>

Str_TI46 == <<"T", "I", "4", "6">>

Str_TI47 == <<"T", "I", "4", "7">>

Str_meta == <<"m">>

Str_url == <<"u">>

\* A raw citation object: every property the parser reads or writes; <<>> is
\* an absent (or null) property.  isNull marks a null array element.  ref is
\* the identity of the object: 0 for an object nobody else holds, i for the
\* object that is element i of answer.citations.
EmptyRaw ==
    [isNull |-> FALSE,
     id |-> None, content |-> None, title |-> None, filepath |-> None,
     url |-> None, metadata |-> None, chunk_id |-> None,
     reindex_id |-> None, part_index |-> None,
     docID |-> None, pageSource |-> None, URL |-> None,
     docId |-> None, source |-> None, page |-> None,
     ref |-> 0]

NullRaw == [EmptyRaw EXCEPT !.isNull = TRUE]

\* An entry shaped like the Citation type (the pool of the inline scheme).
CitA == [EmptyRaw EXCEPT !.id = Some(Str_d1), !.filepath = Some(Str_f1),
                         !.content = Some(<<>>)]

\* Entries carrying the keys of the top-level (flat) scheme.
PfA == [EmptyRaw EXCEPT !.docID = Some(Str_TI46), !.pageSource = Some(Str_pf),
                        !.page = Some(1), !.metadata = Some(Str_meta)]

PfB == [EmptyRaw EXCEPT !.URL = Some(Str_url), !.filepath = Some(Str_f2)]

\* Entries carrying the keys of the tool-message (structured) scheme.
ToolA == [EmptyRaw EXCEPT !.docId = Some(Str_TI46), !.page = Some(1),
                          !.source = Some(Str_f1)]

ToolB == [EmptyRaw EXCEPT !.docId = Some(Str_TI47), !.source = Some(Str_f1),
                          !.filepath = Some(Str_f2), !.metadata = Some(Str_meta)]

\* An element with a page and a metadata string, a filepath and no source.
ToolC == [EmptyRaw EXCEPT !.filepath = Some(Str_f2), !.page = Some(2),
                          !.metadata = Some(Str_meta)]

UndefinedValue == [kind |-> "undefined", items |-> <<>>]

ArrayOf(items) == [kind |-> "array", items |-> items]

\* A value that is neither null/undefined nor an array (a plain object, a number).
OtherValue == [kind |-> "other", items |-> <<>>]

IsArray(v) == v.kind = "array"

\* A chart value: absent, null, a base64 string, or a number (held as its
\* decimal digits).
UndefinedChart == [kind |-> "undefined", data |-> <<>>]

NullChart == [kind |-> "null", data |-> <<>>]

StringChart(d) == [kind |-> "string", data |-> d]

NumberChart(n) == [kind |-> "number", data |-> NumToString(n)]

\* An element of all_exec_results.
NullExecResult == [isNull |-> TRUE, code_exec_result |-> UndefinedChart]

ExecResult(chart) == [isNull |-> FALSE, code_exec_result |-> chart]

\* Message content: null, a string (with what JSON.parse makes of it) or an
\* object.  `parses` is FALSE for a string JSON.parse rejects; of the parsed
\* value only its `citations` and `all_exec_results` properties are read.
NullContent ==
    [kind |-> "null", parses |-> FALSE, isObject |-> FALSE,
     citations |-> UndefinedValue, all_exec_results |-> UndefinedValue]

InvalidJson ==
    [kind |-> "string", parses |-> FALSE, isObject |-> FALSE,
     citations |-> UndefinedValue, all_exec_results |-> UndefinedValue]

\* JSON text of a value that is not an object: null, 5, "text".
JsonNonObject ==
    [kind |-> "string", parses |-> TRUE, isObject |-> FALSE,
     citations |-> UndefinedValue, all_exec_results |-> UndefinedValue]

\* '{"other_field": "value"}'
JsonNoCitations ==
    [kind |-> "string", parses |-> TRUE, isObject |-> TRUE,
     citations |-> UndefinedValue, all_exec_results |-> UndefinedValue]

JsonCitations(cits) ==
    [kind |-> "string", parses |-> TRUE, isObject |-> TRUE,
     citations |-> ArrayOf(cits), all_exec_results |-> UndefinedValue]

ObjectCitations(cits) ==
    [kind |-> "object", parses |-> TRUE, isObject |-> TRUE,
     citations |-> ArrayOf(cits), all_exec_results |-> UndefinedValue]

\* '{"all_exec_results": ...}'
JsonExecResults(execs) ==
    [kind |-> "string", parses |-> TRUE, isObject |-> TRUE,
     citations |-> UndefinedValue, all_exec_results |-> execs]

\* The same as an object that was parsed already.
ObjectExecResults(execs) ==
    [kind |-> "object", parses |-> TRUE, isObject |-> TRUE,
     citations |-> UndefinedValue, all_exec_results |-> execs]

NullMessage == [isNull |-> TRUE, role |-> "", content |-> NullContent]

Message(role, content) == [isNull |-> FALSE, role |-> role, content |-> content]

NullChoice == [isNull |-> TRUE, messages |-> UndefinedValue]

\* {}
EmptyChoice == [isNull |-> FALSE, messages |-> UndefinedValue]

Choice(msgs) == [isNull |-> FALSE, messages |-> ArrayOf(msgs)]

\* answer.answer: a string, or a value of another type.
StringAnswer(t) == [type |-> "string", text |-> t]

NonStringAnswers ==
    {[type |-> "number", text |-> <<>>],
     [type |-> "object", text |-> <<>>],
     [type |-> "undefined", text |-> <<>>]}

Str_iV == <<"i", "V">>

Str_R0 == <<"R", "0">>

\* answer.generated_chart: absent, null or a base64 string.
Charts == {UndefinedChart, NullChart, StringChart(Str_iV)}

-----------------------------------------------------------------------------
(* Citation: the record parseAnswer returns *)

\* The Citation that is the very object raw: what `answer.citations[i] as
\* Citation` would be without the copy.
cloneDeepSameObject(raw) ==
    [id |-> raw.id,
     content |-> raw.content,
     title |-> raw.title,
     filepath |-> raw.filepath,
     url |-> raw.url,
     metadata |-> raw.metadata,
     chunk_id |-> raw.chunk_id,
     reindex_id |-> raw.reindex_id,
     part_index |-> raw.part_index,
     ref |-> raw.ref]

\* cloneDeep(answer.citations[i]) seen as a Citation: the properties of the
\* Citation type, copied into a new object (ref 0).
cloneDeep(raw) ==
    [id |-> raw.id,
     content |-> raw.content,
     title |-> raw.title,
     filepath |-> raw.filepath,
     url |-> raw.url,
     metadata |-> raw.metadata,
     chunk_id |-> raw.chunk_id,
     reindex_id |-> raw.reindex_id,
     part_index |-> raw.part_index,
     ref |-> 0]

\* enumerateCitations: walks the list with a Map from filepath to the last
\* part_i handed out for it; every citation gets 1 or the stored value plus 1.
RECURSIVE enumerateFrom(_, _, _)
enumerateFrom(cs, j, filepathMap) ==
    IF j > Len(cs) THEN cs
    ELSE LET filepath == cs[j].filepath
             part_i == IF filepath \in DOMAIN filepathMap
                       THEN filepathMap[filepath] + 1
                       ELSE 1
             map2 == [k \in (DOMAIN filepathMap) \cup {filepath} |->
                         IF k = filepath THEN part_i ELSE filepathMap[k]]
         IN  enumerateFrom([cs EXCEPT ![j].part_index = Some(part_i)], j + 1, map2)

\* The numbering that leaves alone a part_index that is already set.
enumerateCitationsKeepsSeed(cs) ==
    LET numbered == enumerateFrom(cs, 1, <<>>)
    IN  [j \in 1..Len(cs) |->
            IF cs[j].part_index # None THEN cs[j] ELSE numbered[j]]

enumerateCitations(cs) == enumerateFrom(cs, 1, <<>>)

-----------------------------------------------------------------------------
(* The inline [docN] pass: lines 123-152, 361-390 and 571-600 are the same code *)

\* The entry at index N, not N-1.
PoolEntryOffByOne(a, i) ==
    IF IsArray(a.citations) /\ i + 1 >= 0 /\ i + 1 < Len(a.citations.items)
    THEN [a.citations.items[i + 2] EXCEPT !.ref = i + 2]
    ELSE NullRaw

\* answer.citations[i] for a 0-based index i: the element itself (its ref is
\* its place in the array).  NullRaw stands for undefined too (out of range, a
\* property lookup on a non-array): both are falsy.
PoolEntry(a, i) ==
    IF IsArray(a.citations) /\ i >= 0 /\ i < Len(a.citations.items)
    THEN [a.citations.items[i + 1] EXCEPT !.ref = i + 1]
    ELSE NullRaw

\* What the call would start from if the accumulators lived at module scope
\* and were never reset: the leftovers of the previous call.
InlineStartKeepsAccumulators(a) ==
    [answerText |-> a.answer.text,
     citationReindex |-> Len(result.citations),
     filteredCitations |-> result.citations,
     threw |-> FALSE]

\* Lines 358-368: the locals of one call, set from the payload alone.
InlineStart(a) ==
    [answerText |-> a.answer.text,
     citationReindex |-> 0,
     filteredCitations |-> <<>>,
     threw |-> FALSE]

\* The body of citationLinks.forEach for one link.  Reading a property of an
\* undefined answer.citations throws a TypeError, which leaves parseAnswer.
ProcessLinkCountsInvalid(a, link, st) ==
    LET citationIndex == SubSeq(link, 5, Len(link) - 1)
        raw == PoolEntry(a, Number(citationIndex) - 1)
        k == st.citationReindex + 1
    IN  IF a.citations.kind = "undefined"
        THEN [st EXCEPT !.threw = TRUE]
        ELSE IF (~\E j \in 1..Len(st.filteredCitations) :
                     st.filteredCitations[j].id = citationIndex) /\ ~raw.isNull
        THEN [st EXCEPT
                 !.answerText = ReplaceAll(st.answerText, link, Placeholder(k)),
                 !.citationReindex = k,
                 !.filteredCitations =
                     Append(st.filteredCitations,
                            [cloneDeep(raw) EXCEPT !.id = citationIndex,
                                                   !.reindex_id = Some(NumToString(k))])]
        ELSE [st EXCEPT !.citationReindex = k]

\* The body that rewrites the marker before looking at the pool entry.
ProcessLinkRewritesFirst(a, link, st) ==
    LET citationIndex == SubSeq(link, 5, Len(link) - 1)
        raw == PoolEntry(a, Number(citationIndex) - 1)
        k == st.citationReindex + 1
    IN  IF a.citations.kind = "undefined"
        THEN [st EXCEPT !.threw = TRUE]
        ELSE IF (~\E j \in 1..Len(st.filteredCitations) :
                     st.filteredCitations[j].id = citationIndex) /\ ~raw.isNull
        THEN [st EXCEPT
                 !.answerText = ReplaceAll(st.answerText, link, Placeholder(k)),
                 !.citationReindex = k,
                 !.filteredCitations =
                     Append(st.filteredCitations,
                            [cloneDeep(raw) EXCEPT !.id = citationIndex,
                                                   !.reindex_id = Some(NumToString(k))])]
        ELSE [st EXCEPT !.answerText = ReplaceAll(st.answerText, link, Placeholder(k))]

ProcessLink(a, link, st) ==
    LET citationIndex == SubSeq(link, 5, Len(link) - 1)
        raw == PoolEntry(a, Number(citationIndex) - 1)
        k == st.citationReindex + 1
    IN  IF a.citations.kind = "undefined"
        THEN [st EXCEPT !.threw = TRUE]
        ELSE IF (~\E j \in 1..Len(st.filteredCitations) :
                     st.filteredCitations[j].id = citationIndex) /\ ~raw.isNull
        THEN [st EXCEPT
                 !.answerText = ReplaceAll(st.answerText, link, Placeholder(k)),
                 !.citationReindex = k,
                 !.filteredCitations =
                     Append(st.filteredCitations,
                            [cloneDeep(raw) EXCEPT !.id = citationIndex,
                                                   !.reindex_id = Some(NumToString(k))])]
        ELSE st

RECURSIVE ForEachLink(_, _, _)
ForEachLink(a, links, st) ==
    IF links = <<>> \/ st.threw THEN st
    ELSE ForEachLink(a, Tail(links), ProcessLink(a, Head(links), st))

InlinePass(a) == ForEachLink(a, MatchLinks(a.answer.text), InlineStart(a))

-----------------------------------------------------------------------------
(* Fallback extractors *)

\* The metadata with the explicit string first and the page as the default.
MetadataOfExplicitFirst(pf) ==
    IF pf.metadata # None THEN pf.metadata
    ELSE IF pf.page # None THEN Some(StringifyPage(pf.page[1])) ELSE None

\* metadata: pf?.page != null ? JSON.stringify({ page: pf.page }) : (pf?.metadata ?? null)
MetadataOf(pf) ==
    IF pf.page # None THEN Some(StringifyPage(pf.page[1])) ELSE pf.metadata

\* The Citation built at lines 89-99 from element pf at 0-based position i.
FlatCitation(pf, i) ==
    [id |-> Coalesce(pf.docID, Some(NumToString(i + 1)))[1],
     content |-> Coalesce(pf.content, Some(<<>>)),
     title |-> pf.title,
     filepath |-> pf.pageSource,
     url |-> pf.URL,
     metadata |-> MetadataOf(pf),
     chunk_id |-> pf.chunk_id,
     reindex_id |-> None,
     part_index |-> pf.page,
     ref |-> 0]

hasPFKeysAnyObject(pf) == ~pf.isNull

\* hasPFKeys, line 83
hasPFKeys(pf) ==
    ~pf.isNull /\ (pf.docID # None \/ pf.pageSource # None \/ pf.URL # None)

\* The loop that numbers a recognized element by its place among the
\* recognized ones.
RECURSIVE FlatLoopCountsRecognized(_, _, _)
FlatLoopCountsRecognized(cits, i, out) ==
    IF i >= Len(cits) THEN out
    ELSE IF ~hasPFKeys(cits[i + 1])
         THEN FlatLoopCountsRecognized(cits, i + 1, out)
         ELSE FlatLoopCountsRecognized(cits, i + 1,
                                       Append(out, FlatCitation(cits[i + 1], Len(out))))

\* Lines 78-103: the loop over the top-level array.
RECURSIVE FlatLoop(_, _, _)
FlatLoop(cits, i, out) ==
    IF i >= Len(cits) THEN out
    ELSE IF ~hasPFKeys(cits[i + 1])
         THEN FlatLoop(cits, i + 1, out)
         ELSE FlatLoop(cits, i + 1, Append(out, FlatCitation(cits[i + 1], i)))

\* extractPromptFlowCitations of the first copy: the top-level `citations`.
extractPromptFlowCitations_62(a) ==
    IF ~IsArray(a.citations) THEN <<>>
    ELSE FlatLoop(a.citations.items, 0, <<>>)

\* The Citation built at lines 321-331 from element pf at 0-based position i;
\* every read is pf?.x, so a null element gives the defaults.
\* The citation with the 0-based position as the default id.
ToolCitationZeroBasedId(pf, i) ==
    [id |-> Coalesce(pf.docId, Some(NumToString(i)))[1],
     content |-> Coalesce(pf.content, Some(<<>>)),
     title |-> pf.title,
     filepath |-> Coalesce(pf.source, pf.filepath),
     url |-> pf.url,
     metadata |-> MetadataOf(pf),
     chunk_id |-> pf.chunk_id,
     reindex_id |-> None,
     part_index |-> pf.page,
     ref |-> 0]

\* The citation with `filepath` read before `source`.
ToolCitationFilepathFirst(pf, i) ==
    [id |-> Coalesce(pf.docId, Some(NumToString(i + 1)))[1],
     content |-> Coalesce(pf.content, Some(<<>>)),
     title |-> pf.title,
     filepath |-> Coalesce(pf.filepath, pf.source),
     url |-> pf.url,
     metadata |-> MetadataOf(pf),
     chunk_id |-> pf.chunk_id,
     reindex_id |-> None,
     part_index |-> pf.page,
     ref |-> 0]

ToolCitation(pf, i) ==
    [id |-> Coalesce(pf.docId, Some(NumToString(i + 1)))[1],
     content |-> Coalesce(pf.content, Some(<<>>)),
     title |-> pf.title,
     filepath |-> Coalesce(pf.source, pf.filepath),
     url |-> pf.url,
     metadata |-> MetadataOf(pf),
     chunk_id |-> pf.chunk_id,
     reindex_id |-> None,
     part_index |-> pf.page,
     ref |-> 0]

\* A null element reads as an object with no property.
Props(pf) == IF pf.isNull THEN EmptyRaw ELSE pf

\* The contribution of a message whatever its role.
MessageCitationsAnyRole(msg) ==
    IF msg.isNull THEN <<>>
    ELSE IF msg.content.kind = "null" THEN <<>>
    ELSE IF msg.content.kind = "string" /\ ~msg.content.parses THEN <<>>
    ELSE IF ~msg.content.isObject \/ ~IsArray(msg.content.citations) THEN <<>>
    ELSE [i \in 1..Len(msg.content.citations.items) |->
             ToolCitation(Props(msg.content.citations.items[i]), i - 1)]

\* Lines 281-315: the citations array a message contributes, <<>> when the
\* message is skipped (`continue`).
MessageCitations(msg) ==
    IF msg.isNull \/ msg.role # "tool" THEN <<>>
    ELSE IF msg.content.kind = "null" THEN <<>>
    ELSE IF msg.content.kind = "string" /\ ~msg.content.parses THEN <<>>
    ELSE IF ~msg.content.isObject \/ ~IsArray(msg.content.citations) THEN <<>>
    ELSE [i \in 1..Len(msg.content.citations.items) |->
             ToolCitation(Props(msg.content.citations.items[i]), i - 1)]

IsBadJson(msg) ==
    /\ ~msg.isNull
    /\ msg.role = "tool"
    /\ msg.content.kind = "string"
    /\ ~msg.content.parses

RECURSIVE MessagesLoopBreakOnBadJson(_, _, _)
MessagesLoopBreakOnBadJson(messages, j, out) ==
    IF j > Len(messages) \/ IsBadJson(messages[j]) THEN out
    ELSE MessagesLoopBreakOnBadJson(messages, j + 1, out \o MessageCitations(messages[j]))

\* The loop that keeps the citations of the last contributing message only.
RECURSIVE MessagesLoopKeepsLast(_, _, _)
MessagesLoopKeepsLast(messages, j, out) ==
    IF j > Len(messages) THEN out
    ELSE MessagesLoopKeepsLast(messages, j + 1,
                               IF MessageCitations(messages[j]) # <<>>
                               THEN MessageCitations(messages[j]) ELSE out)

\* Lines 278-340: the loop over the messages of one choice.
RECURSIVE MessagesLoop(_, _, _)
MessagesLoop(messages, j, out) ==
    IF j > Len(messages) THEN out
    ELSE MessagesLoop(messages, j + 1, out \o MessageCitations(messages[j]))

\* Lines 268-341: the loop over the choices.
RECURSIVE ChoicesLoop(_, _, _)
ChoicesLoop(choices, j, out) ==
    IF j > Len(choices) THEN out
    ELSE IF choices[j].isNull \/ ~IsArray(choices[j].messages)
         THEN ChoicesLoop(choices, j + 1, out)
         ELSE ChoicesLoop(choices, j + 1,
                          MessagesLoop(choices[j].messages.items, 1, out))

extractTopLevelThenTool(a) ==
    IF extractPromptFlowCitations_62(a) # <<>>
    THEN extractPromptFlowCitations_62(a)
    ELSE IF ~IsArray(a.choices) THEN <<>>
    ELSE ChoicesLoop(a.choices.items, 1, <<>>)

\* extractPromptFlowCitations of the second copy: choices[].messages[].
extractPromptFlowCitations_252(a) ==
    IF ~IsArray(a.choices) THEN <<>>
    ELSE ChoicesLoop(a.choices.items, 1, <<>>)

\* extractPromptFlowCitations of the third copy: the same statements as the
\* second, tracing with console.log instead of debugLog.
extractPromptFlowCitations_462(a) ==
    IF ~IsArray(a.choices) THEN <<>>
    ELSE ChoicesLoop(a.choices.items, 1, <<>>)

-----------------------------------------------------------------------------
(* Chart extraction of the chat page: parsePlotFromMessage of                *)
(* frontend/src/pages/chat/Chat.tsx, as src/unnamed/part_001 lines 768-788   *)
(* give it.  Every failure inside the try block ends in the catch.           *)

\* codeExecResult.toString(); null.toString() throws.
ChartToString(chart) ==
    IF chart.kind = "null" THEN NullChart ELSE StringChart(chart.data)

\* The extraction that reads the first execution result, not the last.
parsePlotFromMessageFirstResult(message) ==
    IF message.isNull \/ message.role # "tool" \/ message.content.kind # "string"
    THEN NullChart
    ELSE IF ~message.content.parses \/ ~message.content.isObject THEN NullChart
    ELSE LET execs == message.content.all_exec_results
         IN  IF ~IsArray(execs) THEN NullChart
             ELSE IF execs.items = <<>> \/ execs.items[1].isNull
                  THEN NullChart
                  ELSE LET codeExecResult == execs.items[1].code_exec_result
                       IN  IF codeExecResult.kind = "undefined" THEN NullChart
                           ELSE ChartToString(codeExecResult)

parsePlotFromMessage(message) ==
    IF message.isNull \/ message.role # "tool" \/ message.content.kind # "string"
    THEN NullChart
    ELSE IF ~message.content.parses \/ ~message.content.isObject THEN NullChart
    ELSE LET execs == message.content.all_exec_results
         IN  IF ~IsArray(execs) THEN NullChart
             ELSE IF execs.items = <<>> \/ execs.items[Len(execs.items)].isNull
                  THEN NullChart
                  ELSE LET codeExecResult == execs.items[Len(execs.items)].code_exec_result
                       IN  IF codeExecResult.kind = "undefined" THEN NullChart
                           ELSE ChartToString(codeExecResult)

-----------------------------------------------------------------------------
(* parseAnswer *)

NoCall ==
    [status |-> "none", citations |-> <<>>, markdownFormatText |-> <<>>,
     generated_chart |-> UndefinedChart]

\* return null
NullResult == [NoCall EXCEPT !.status = "null"]

\* an exception left parseAnswer
Thrown == [NoCall EXCEPT !.status = "threw"]

ReindexFromZero(pfCitations) ==
    [i \in 1..Len(pfCitations) |->
        [pfCitations[i] EXCEPT !.reindex_id = Some(NumToString(i - 1))]]

\* pfCitations.forEach((c, idx) => c.reindex_id = (idx + 1).toString())
Reindex(pfCitations) ==
    [i \in 1..Len(pfCitations) |->
        [pfCitations[i] EXCEPT !.reindex_id = Some(NumToString(i))]]

FallbackUngated(filteredCitations, pfCitations) ==
    IF Len(pfCitations) > 0 THEN Reindex(pfCitations) ELSE filteredCitations

\* Lines 158-176 (396-414, 606-624): the fallback is consulted only when the
\* inline pass left filteredCitations empty.
Fallback(filteredCitations, pfCitations) ==
    IF Len(filteredCitations) = 0
    THEN IF Len(pfCitations) > 0 THEN Reindex(pfCitations) ELSE filteredCitations
    ELSE filteredCitations

\* The result with the chart of the first message of the first choice, when it
\* carries one, in place of the payload's field.
FinishReadsChartFromChoices(a, answerText, filteredCitations) ==
    [status |-> "ok",
     citations |-> enumerateCitations(filteredCitations),
     markdownFormatText |-> answerText,
     generated_chart |->
        IF /\ IsArray(a.choices)
           /\ a.choices.items # <<>>
           /\ ~a.choices.items[1].isNull
           /\ IsArray(a.choices.items[1].messages)
           /\ a.choices.items[1].messages.items # <<>>
           /\ parsePlotFromMessage(a.choices.items[1].messages.items[1]) # NullChart
        THEN parsePlotFromMessage(a.choices.items[1].messages.items[1])
        ELSE a.generated_chart]

\* Lines 178-192 (416-430, 626-640)
Finish(a, answerText, filteredCitations) ==
    [status |-> "ok",
     citations |-> enumerateCitations(filteredCitations),
     markdownFormatText |-> answerText,
     generated_chart |-> a.generated_chart]

parseAnswerNoTypeCheck(a) ==
    LET st == InlinePass(a)
    IN  IF st.threw \/ a.answer.type # "string" THEN Thrown
        ELSE Finish(a, st.answerText,
                    Fallback(st.filteredCitations, extractPromptFlowCitations_62(a)))

\* First copy, line 110.
parseAnswer_110(a) ==
    IF a.answer.type # "string" THEN NullResult
    ELSE LET st == InlinePass(a)
         IN  IF st.threw THEN Thrown
             ELSE Finish(a, st.answerText,
                         Fallback(st.filteredCitations, extractPromptFlowCitations_62(a)))

\* Second copy, line 348.
parseAnswer_348(a) ==
    IF a.answer.type # "string" THEN NullResult
    ELSE LET st == InlinePass(a)
         IN  IF st.threw THEN Thrown
             ELSE Finish(a, st.answerText,
                         Fallback(st.filteredCitations, extractPromptFlowCitations_252(a)))

\* Third copy, line 558.
parseAnswer_558(a) ==
    IF a.answer.type # "string" THEN NullResult
    ELSE LET st == InlinePass(a)
         IN  IF st.threw THEN Thrown
             ELSE Finish(a, st.answerText,
                         Fallback(st.filteredCitations, extractPromptFlowCitations_462(a)))

-----------------------------------------------------------------------------
(* Tracing.  Of the lines a call writes, the model keeps the banners: the   *)
(* opening line and the line before the return.  The lines between are      *)
(* written through the same function.  The arguments of a trace line are    *)
(* evaluated before the flag is looked at, and safeStringify catches what   *)
(* JSON.stringify throws, so a line contributes its text alone.             *)

\* Lines 17-22 (207-212), in a browser.
isDebugEnabled == ENABLE_CITATION_DEBUG

\* A run of parseAnswer in progress: the console and the value it is to return.
Run(c, value) == [console |-> c, value |-> value]

\* Tracing that makes the caller return null while the flag is off.
debugLogGatesCaller(run, message) ==
    IF isDebugEnabled THEN [run EXCEPT !.console = Append(@, message)]
    ELSE [run EXCEPT !.value = NullResult]

\* Lines 37-41 (227-231): console.log under the flag, nothing otherwise.
debugLog(run, message) ==
    IF isDebugEnabled THEN [run EXCEPT !.console = Append(@, message)] ELSE run

\* The third copy calls console.log itself (lines 559, 563, 636).
console_log(run, message) == [run EXCEPT !.console = Append(@, message)]

\* The trace function of each copy.
Trace(copy, run, message) ==
    IF copy = 558 THEN console_log(run, message) ELSE debugLog(run, message)

\* Line 111 (349, 559): the opening banner.
EnterParseAnswer(copy, c) == Trace(copy, Run(c, NoCall), "Starting parseAnswer")

\* Line 115 (353, 563) before `return null`, line 188 (426, 636) before
\* `return result`; a call that throws writes no closing line.
LeaveParseAnswer(copy, run, res) ==
    IF res.status = "threw" THEN [run EXCEPT !.value = res]
    ELSE Trace(copy, [run EXCEPT !.value = res],
               IF res.status = "null" THEN "returning null"
               ELSE "parseAnswer complete")

\* The copy of parseAnswer by the line it starts at.
parseAnswerOf(copy, a) ==
    IF copy = 110 THEN parseAnswer_110(a)
    ELSE IF copy = 348 THEN parseAnswer_348(a)
    ELSE parseAnswer_558(a)

\* One whole call with its tracing.
TracedCall(copy, a, c) ==
    LeaveParseAnswer(copy, EnterParseAnswer(copy, c), parseAnswerOf(copy, a))

\* A pool entry after the writes parseAnswer and enumerateCitations made to
\* the Citation c that is the same object.
Written(raw, c) ==
    [raw EXCEPT !.id = Some(c.id), !.reindex_id = c.reindex_id,
                !.part_index = c.part_index]

\* The argument as the call leaves it.  The call assigns to properties of the
\* citations it returns only (lines 383-384, 405, 242): an element of
\* answer.citations changes exactly when a returned citation is that object.
ArgumentAfter(a, res) ==
    IF ~IsArray(a.citations) THEN a
    ELSE [a EXCEPT !.citations.items =
             [i \in 1..Len(a.citations.items) |->
                 IF \E r \in 1..Len(res.citations) : res.citations[r].ref = i
                 THEN Written(a.citations.items[i],
                              res.citations[CHOOSE r \in 1..Len(res.citations) :
                                               res.citations[r].ref = i])
                 ELSE a.citations.items[i]]]

-----------------------------------------------------------------------------
(* Inputs *)

Marker(digits) == [kind |-> "marker", s |-> digits]

Text(chars) == [kind |-> "text", s |-> chars]

SegmentText(seg) ==
    IF seg.kind = "marker" THEN <<"[", "d", "o", "c">> \o seg.s \o <<"]">> ELSE seg.s

RECURSIVE Flatten(_)
Flatten(segs) ==
    IF segs = <<>> THEN <<>> ELSE SegmentText(Head(segs)) \o Flatten(Tail(segs))

\* Pieces of answer text: markers [doc1], [doc2], [doc01], [doc0] and plain text.
InlineSegments ==
    {Marker(<<"1">>), Marker(<<"2">>), Marker(<<"0", "1">>), Marker(<<"0">>),
     Text(Str_x)}

\* "[doc1234]": four digits, which the pattern does not accept.
FourDigits == Text(<<"[", "d", "o", "c", "1", "2", "3", "4", "]">>)

Payload(text, citations, choices, chart) ==
    [answer |-> text, citations |-> citations, choices |-> choices,
     generated_chart |-> chart]

\* The choices of the test "should NOT use PromptFlow citations when inline
\* citations are present": an assistant message and a tool message with one
\* citation.
MixedChoices ==
    ArrayOf(<<Choice(<<Message("assistant", JsonNoCitations),
                       Message("tool", JsonCitations(<<ToolA>>))>>)>>)

\* Messages a choice may hold.
MessageSet ==
    {NullMessage,
     Message("assistant", JsonCitations(<<ToolA>>)),
     Message("tool", NullContent),
     Message("tool", InvalidJson),
     Message("tool", JsonNonObject),
     Message("tool", JsonNoCitations),
     Message("tool", JsonCitations(<<ToolA>>)),
     Message("tool", JsonCitations(<<ToolC>>)),
     Message("tool", ObjectCitations(<<ToolB, NullRaw>>))}

MainChoices ==
    {NullChoice, EmptyChoice} \cup {Choice(ms) : ms \in SeqsUpTo(MessageSet, MaxMsgs)}

\* A further choice, before or after the main one.
SecondChoices ==
    {Choice(<<Message("tool", JsonCitations(<<EmptyRaw>>))>>)}

ChoicesSet ==
    {UndefinedValue, OtherValue}
    \cup {ArrayOf(<<c>>) : c \in MainChoices}
    \cup {ArrayOf(<<c, d>>) : c \in MainChoices, d \in SecondChoices}
    \cup {ArrayOf(<<d, c>>) : c \in MainChoices, d \in SecondChoices}

\* Pools of the inline scheme: empty, one entry, a null slot, two entries.
InlinePools ==
    {<<>>, <<CitA>>, <<NullRaw, CitA>>, <<CitA, PfA>>, <<PfA, NullRaw>>, <<CitA, CitA>>}

\* Inputs of the inline scheme: any text over the pieces, over each pool.
InlineInputs ==
    {[segments |-> segs,
      answer |-> Payload(StringAnswer(Flatten(segs)), ArrayOf(pool), MixedChoices, NullChart)] :
        segs \in SeqsUpTo(InlineSegments, MaxSegments),
        pool \in InlinePools}

\* Inputs of the top-level (flat) scheme.
FlatInputs ==
    {[segments |-> segs,
      answer |-> Payload(StringAnswer(Flatten(segs)), ArrayOf(pool), UndefinedValue, chart)] :
        segs \in {<<Text(Str_x)>>, <<Marker(<<"2">>), Text(Str_x)>>},
        pool \in SeqsUpTo({NullRaw, CitA, PfA, PfB}, MaxPool),
        chart \in Charts}

\* Inputs of the tool-message (structured) scheme.
ToolInputs ==
    {[segments |-> tp[1],
      answer |-> Payload(StringAnswer(Flatten(tp[1])), tp[2], choices, NullChart)] :
        tp \in {<<<<Text(Str_x)>>, ArrayOf(<<>>)>>,
                <<<<Text(Str_x)>>, UndefinedValue>>,
                <<<<Text(Str_x)>>, ArrayOf(<<PfA>>)>>,
                <<<<Marker(<<"1">>), FourDigits>>, ArrayOf(<<>>)>>,
                <<<<Marker(<<"1">>)>>, UndefinedValue>>,
                <<<<Marker(<<"1">>)>>, OtherValue>>},
        choices \in ChoicesSet}

\* Payloads whose answer is not a string.
NonStringInputs ==
    {[segments |-> <<>>,
      answer |-> Payload(ans, citations, choices, chart)] :
        ans \in NonStringAnswers,
        citations \in {UndefinedValue, ArrayOf(<<CitA>>), ArrayOf(<<PfA>>)},
        choices \in {UndefinedValue, MixedChoices},
        chart \in Charts}

\* "See [doc1] and [doc2]." over a pool of two entries with the same filepath.
SeeDoc1AndDoc2 ==
    <<Text(<<"S", "e", "e", " ">>), Marker(<<"1">>), Text(<<" ", "a", "n", "d", " ">>),
      Marker(<<"2">>), Text(<<".">>)>>

ExampleInputs ==
    {[segments |-> SeeDoc1AndDoc2,
      answer |-> Payload(StringAnswer(Flatten(SeeDoc1AndDoc2)), ArrayOf(<<CitA, CitA>>),
                         choices, NullChart)] :
        choices \in {UndefinedValue, MixedChoices}}

\* The choices of an Azure SQL Server response: a tool message with the
\* execution results, then the assistant message.
ChartChoices ==
    ArrayOf(<<Choice(<<Message("tool", JsonExecResults(ArrayOf(<<ExecResult(StringChart(Str_R0))>>))),
                       Message("assistant", JsonNoCitations)>>)>>)

\* Payloads with a chart in a tool message, in generated_chart, in both or in
\* neither.
ChartInputs ==
    {[segments |-> tp[1],
      answer |-> Payload(StringAnswer(Flatten(tp[1])), tp[2], choices, chart)] :
        tp \in {<<<<Text(Str_x)>>, ArrayOf(<<>>)>>,
                <<<<Marker(<<"1">>)>>, ArrayOf(<<CitA>>)>>},
        choices \in {ChartChoices, MixedChoices},
        chart \in Charts}

Inputs ==
    InlineInputs \cup FlatInputs \cup ToolInputs \cup NonStringInputs \cup ExampleInputs
    \cup ChartInputs

\* Payloads of the turns of one chat session.
SessionInputs ==
    {[segments |-> tp[1],
      answer |-> Payload(StringAnswer(Flatten(tp[1])), tp[2], tp[3], NullChart)] :
        tp \in {<<<<Marker(<<"1">>), Text(Str_x)>>, ArrayOf(<<CitA>>), MixedChoices>>,
                <<<<Marker(<<"2">>), Marker(<<"1">>)>>, ArrayOf(<<CitA, PfA>>), MixedChoices>>,
                <<<<Text(Str_x)>>, ArrayOf(<<>>), MixedChoices>>,
                <<<<Text(Str_x)>>, ArrayOf(<<PfA, PfB>>), UndefinedValue>>,
                <<<<Marker(<<"1">>)>>, UndefinedValue, UndefinedValue>>}}
    \cup {[segments |-> <<>>,
           answer |-> Payload([type |-> "undefined", text |-> <<>>], ArrayOf(<<CitA>>),
                              MixedChoices, NullChart)]}

-----------------------------------------------------------------------------
(* The chat page and the backend responses it receives.  Chat.tsx and        *)
(* backend/utils.py are known through the excerpts of                        *)
(* src/CITATION_BUG_ANALYSIS.md and src/unnamed/part_001.                    *)

\* {} as ChatMessage
EmptyChatMessage == Message("", NullContent)

\* The assistant message: its content is the answer text, which is not JSON.
AssistantMessage == Message("assistant", InvalidJson)

\* What a Prompt Flow endpoint returns: the reply field and the citations
\* field, each present or not.
PfOutput(hasReply, hasCitations, documents) ==
    [hasReply |-> hasReply, hasCitations |-> hasCitations, documents |-> documents]

\* A retrieved document.
DocB == [EmptyRaw EXCEPT !.title = Some(Str_x), !.filepath = Some(Str_f2)]

PfOutputs ==
    {PfOutput(r, c, d) : r \in BOOLEAN, c \in BOOLEAN, d \in {<<CitA>>, <<DocB, CitA>>}}

\* format_pf_non_streaming_response: the assistant message is appended first,
\* the tool message with the citations after it.
format_pf_non_streaming_response(chatCompletion) ==
    (IF chatCompletion.hasReply THEN <<AssistantMessage>> ELSE <<>>)
    \o (IF chatCompletion.hasCitations
        THEN <<Message("tool", JsonCitations(chatCompletion.documents))>>
        ELSE <<>>)

\* What the tool message of an Azure OpenAI response may hold: citations,
\* execution results of Azure SQL Server in several shapes, or text that is
\* not the expected JSON.
ToolContents ==
    {JsonCitations(<<CitA>>),
     JsonExecResults(ArrayOf(<<ExecResult(StringChart(Str_R0))>>)),
     JsonExecResults(ArrayOf(<<ExecResult(StringChart(Str_iV)), ExecResult(StringChart(Str_R0))>>)),
     JsonExecResults(ArrayOf(<<ExecResult(StringChart(Str_R0)), ExecResult(UndefinedChart)>>)),
     JsonExecResults(ArrayOf(<<ExecResult(NullChart)>>)),
     JsonExecResults(ArrayOf(<<ExecResult(NumberChart(7))>>)),
     JsonExecResults(ArrayOf(<<NullExecResult>>)),
     JsonExecResults(ArrayOf(<<>>)),
     JsonExecResults(OtherValue),
     ObjectExecResults(ArrayOf(<<ExecResult(StringChart(Str_R0))>>)),
     JsonNoCitations, JsonNonObject, InvalidJson, NullContent}

\* format_non_streaming_response with a data source: the tool message with
\* the context, then the assistant message.
format_non_streaming_response(context) ==
    <<Message("tool", context), AssistantMessage>>

\* The same without a data source: the assistant message alone.
format_non_streaming_response_no_data == <<AssistantMessage>>

\* The state a request would start from without the reset statements.
RequestStartKeepsState ==
    [assistantMessage |-> assistantMessage, toolMessage |-> toolMessage]

\* makeApiRequestWithoutCosmosDB / makeApiRequestWithCosmosDB, first lines:
\* the message state is reset for the new request.
RequestStart ==
    [assistantMessage |-> EmptyChatMessage, toolMessage |-> EmptyChatMessage]

\* processResultMessage for one message of the response.
processResultMessage(st, resultMessage) ==
    IF resultMessage.role = "tool" THEN [st EXCEPT !.toolMessage = resultMessage]
    ELSE IF resultMessage.role = "assistant"
         THEN [st EXCEPT !.assistantMessage = resultMessage]
         ELSE st

RECURSIVE ProcessResponse(_, _)
ProcessResponse(st, msgs) ==
    IF msgs = <<>> THEN st
    ELSE ProcessResponse(processResultMessage(st, Head(msgs)), Tail(msgs))

-----------------------------------------------------------------------------
(* The state machine: a payload, a call of one of the copies *)

\* The chat page before its first request.
NoChat ==
    /\ response = <<>>
    /\ assistantMessage = EmptyChatMessage
    /\ toolMessage = EmptyChatMessage
    /\ turns = <<>>
    /\ inFlight = <<>>

\* Nothing written yet.  The first copy sets the flag at load (lines 11-13);
\* the developer tools may set or clear it at any time (line 16).
NoTrace(flags) ==
    /\ ENABLE_CITATION_DEBUG \in flags
    /\ console = <<>>

Init ==
    /\ \E in \in Inputs :
          /\ segments = in.segments
          /\ answer = in.answer
    /\ pc = "ready"
    /\ impl = 0
    /\ result = NoCall
    /\ calls = <<>>
    /\ NoChat
    /\ NoTrace({TRUE})

\* A call of the copy at line 110.  A session runs one copy of the module.
Call_parseAnswer_110 ==
    /\ pc = "ready"
    /\ impl \in {0, 110}
    /\ LET run == TracedCall(110, answer, console)
       IN  /\ result' = run.value
           /\ console' = run.console
    /\ answer' = ArgumentAfter(answer, result')
    /\ calls' = Append(calls, [payload |-> answer, result |-> result'])
    /\ impl' = 110
    /\ pc' = "done"
    /\ UNCHANGED <<segments, chatVars, ENABLE_CITATION_DEBUG>>

Call_parseAnswer_348 ==
    /\ pc = "ready"
    /\ impl \in {0, 348}
    /\ LET run == TracedCall(348, answer, console)
       IN  /\ result' = run.value
           /\ console' = run.console
    /\ answer' = ArgumentAfter(answer, result')
    /\ calls' = Append(calls, [payload |-> answer, result |-> result'])
    /\ impl' = 348
    /\ pc' = "done"
    /\ UNCHANGED <<segments, chatVars, ENABLE_CITATION_DEBUG>>

Call_parseAnswer_558 ==
    /\ pc = "ready"
    /\ impl \in {0, 558}
    /\ LET run == TracedCall(558, answer, console)
       IN  /\ result' = run.value
           /\ console' = run.console
    /\ answer' = ArgumentAfter(answer, result')
    /\ calls' = Append(calls, [payload |-> answer, result |-> result'])
    /\ impl' = 558
    /\ pc' = "done"
    /\ UNCHANGED <<segments, chatVars, ENABLE_CITATION_DEBUG>>

Next == Call_parseAnswer_110 \/ Call_parseAnswer_348 \/ Call_parseAnswer_558

Spec == Init /\ [][Next]_vars

\* The copy with the top-level fallback alone.
NextFlat == Call_parseAnswer_110

SpecFlat == Init /\ [][NextFlat]_vars

\* The copies with the tool-message fallback alone.
NextTool == Call_parseAnswer_348 \/ Call_parseAnswer_558

SpecTool == Init /\ [][NextTool]_vars

\* A chat session: the Answer component is rendered for one turn after the
\* other, each rendering calling parseAnswer on the payload of its turn.
InitSession ==
    /\ \E in \in SessionInputs :
          /\ segments = in.segments
          /\ answer = in.answer
    /\ pc = "ready"
    /\ impl = 0
    /\ result = NoCall
    /\ calls = <<>>
    /\ NoChat
    /\ NoTrace({TRUE})

\* The next turn's payload arrives.
NextTurn ==
    /\ pc = "done"
    /\ Len(calls) < MaxCalls
    /\ \E in \in SessionInputs :
          /\ segments' = in.segments
          /\ answer' = in.answer
    /\ pc' = "ready"
    /\ UNCHANGED <<impl, result, calls, chatVars, debugVars>>

NextSession ==
    Call_parseAnswer_110 \/ Call_parseAnswer_348 \/ Call_parseAnswer_558 \/ NextTurn

SpecSession == InitSession /\ [][NextSession]_vars

\* The chat page: the backend formats a response, the page processes it.
InitChat ==
    /\ segments = <<>>
    /\ answer = Payload(StringAnswer(<<>>), ArrayOf(<<>>), UndefinedValue, NullChart)
    /\ pc = "idle"
    /\ impl = 0
    /\ result = NoCall
    /\ calls = <<>>
    /\ NoChat
    /\ NoTrace({TRUE})

\* The backend answers a request through Prompt Flow.
Backend_format_pf_non_streaming_response ==
    /\ pc = "idle"
    /\ Len(turns) < MaxRequests
    /\ \E chatCompletion \in PfOutputs :
          response' = format_pf_non_streaming_response(chatCompletion)
    /\ pc' = "responded"
    /\ UNCHANGED <<parserVars, debugVars, assistantMessage, toolMessage, turns, inFlight>>

\* The backend answers a request through Azure OpenAI, with a data source or
\* without.
Backend_format_non_streaming_response ==
    /\ pc = "idle"
    /\ Len(turns) < MaxRequests
    /\ \/ \E context \in ToolContents :
             response' = format_non_streaming_response(context)
       \/ response' = format_non_streaming_response_no_data
    /\ pc' = "responded"
    /\ UNCHANGED <<parserVars, debugVars, assistantMessage, toolMessage, turns, inFlight>>

\* makeApiRequestWithoutCosmosDB (and ...WithCosmosDB): reset, then
\* processResultMessage for every message of the response; the Answer of the
\* turn is given the chart parsePlotFromMessage reads from the tool message.
Chat_makeApiRequest ==
    /\ pc = "responded"
    /\ LET st == ProcessResponse(RequestStart, response)
       IN  /\ assistantMessage' = st.assistantMessage
           /\ toolMessage' = st.toolMessage
           /\ turns' = Append(turns,
                              [response |-> response,
                               toolMessage |-> st.toolMessage,
                               generated_chart |-> parsePlotFromMessage(st.toolMessage)])
    /\ response' = <<>>
    /\ pc' = "idle"
    /\ UNCHANGED <<parserVars, debugVars, inFlight>>

NextChat ==
    \/ Backend_format_pf_non_streaming_response
    \/ Backend_format_non_streaming_response
    \/ Chat_makeApiRequest

SpecChat == InitChat /\ [][NextChat]_vars

\* The chat page with requests that overlap.  makeApiRequest is an async
\* function: it resets the message state, awaits the response, and handles
\* the messages as they are read; what another request does in between
\* falls on the same component-level variables.

\* A request that was sent and awaits its response.
Awaiting == [responded |-> FALSE, response |-> <<>>, next |-> 1]

\* Sequence q without its element r.
Without(q, r) == SubSeq(q, 1, r - 1) \o SubSeq(q, r + 1, Len(q))

\* makeApiRequestWithoutCosmosDB / ...WithCosmosDB up to the await: the reset
\* statements, then the request is sent.
Chat_makeApiRequest_begin ==
    /\ pc = "idle"
    /\ Len(inFlight) < MaxInFlight
    /\ Len(turns) + Len(inFlight) < MaxRequests
    /\ assistantMessage' = RequestStart.assistantMessage
    /\ toolMessage' = RequestStart.toolMessage
    /\ inFlight' = Append(inFlight, Awaiting)
    /\ UNCHANGED <<parserVars, debugVars, pc, response, turns>>

\* The backend formats the response of a request under way: through Prompt
\* Flow, or through Azure OpenAI with a data source or without.
Backend_respond ==
    /\ pc = "idle"
    /\ \E r \in 1..Len(inFlight) :
          /\ ~inFlight[r].responded
          /\ \E resp \in {format_pf_non_streaming_response(out) : out \in PfOutputs}
                         \cup {format_non_streaming_response(context) :
                                  context \in ToolContents}
                         \cup {format_non_streaming_response_no_data} :
                inFlight' = [inFlight EXCEPT ![r] =
                                [responded |-> TRUE, response |-> resp, next |-> 1]]
    /\ UNCHANGED <<parserVars, debugVars, pc, response, assistantMessage,
                   toolMessage, turns>>

\* processResultMessage for the next message of a response that arrived.
Chat_processResultMessage ==
    /\ pc = "idle"
    /\ \E r \in 1..Len(inFlight) :
          /\ inFlight[r].responded
          /\ inFlight[r].next <= Len(inFlight[r].response)
          /\ LET st == processResultMessage(
                          [assistantMessage |-> assistantMessage,
                           toolMessage |-> toolMessage],
                          inFlight[r].response[inFlight[r].next])
             IN  /\ assistantMessage' = st.assistantMessage
                 /\ toolMessage' = st.toolMessage
          /\ inFlight' = [inFlight EXCEPT ![r].next = @ + 1]
    /\ UNCHANGED <<parserVars, debugVars, pc, response, turns>>

\* After the last message of a response the messages kept are added to the
\* conversation.
Chat_makeApiRequest_end ==
    /\ pc = "idle"
    /\ \E r \in 1..Len(inFlight) :
          /\ inFlight[r].responded
          /\ inFlight[r].next > Len(inFlight[r].response)
          /\ turns' = Append(turns,
                             [response |-> inFlight[r].response,
                              toolMessage |-> toolMessage,
                              assistantMessage |-> assistantMessage,
                              generated_chart |-> parsePlotFromMessage(toolMessage)])
          /\ inFlight' = Without(inFlight, r)
    /\ UNCHANGED <<parserVars, debugVars, pc, response, assistantMessage, toolMessage>>

NextInFlight ==
    \/ Chat_makeApiRequest_begin
    \/ Backend_respond
    \/ Chat_processResultMessage
    \/ Chat_makeApiRequest_end

SpecInFlight == InitChat /\ [][NextInFlight]_vars

\* Resolving again: the text a call returned is resolved once more over the
\* same citation pool.
InitAgain ==
    /\ \E in \in InlineInputs \cup ExampleInputs :
          /\ segments = in.segments
          /\ answer = in.answer
    /\ pc = "ready"
    /\ impl = 0
    /\ result = NoCall
    /\ calls = <<>>
    /\ NoChat
    /\ NoTrace({TRUE})

\* The payload of the next resolution: result.markdownFormatText (lines
\* 420-424) as the answer, everything else as it was.
ResolveAgain ==
    /\ pc = "done"
    /\ result.status = "ok"
    /\ Len(calls) < MaxCalls
    /\ answer' = [answer EXCEPT !.answer = StringAnswer(result.markdownFormatText)]
    /\ segments' = <<Text(result.markdownFormatText)>>
    /\ pc' = "ready"
    /\ UNCHANGED <<impl, result, calls, chatVars, debugVars>>

NextAgain ==
    Call_parseAnswer_110 \/ Call_parseAnswer_348 \/ Call_parseAnswer_558 \/ ResolveAgain

SpecAgain == InitAgain /\ [][NextAgain]_vars

\* Tracing under a flag that the developer tools set and clear: the same
\* payload is parsed again and again, the flag changing between the calls and
\* between the trace lines of one call.
InitDebug ==
    /\ \E in \in SessionInputs :
          /\ segments = in.segments
          /\ answer = in.answer
    /\ pc = "ready"
    /\ impl = 0
    /\ result = NoCall
    /\ calls = <<>>
    /\ NoChat
    /\ NoTrace(BOOLEAN)

\* window.ENABLE_CITATION_DEBUG = true / false in the browser console.
SetDebugFlag ==
    /\ pc \in {"ready", "inside"}
    /\ ENABLE_CITATION_DEBUG' = ~ENABLE_CITATION_DEBUG
    /\ UNCHANGED <<segments, answer, pc, impl, result, calls, chatVars, console>>

\* parseAnswer is entered and writes its opening banner.
Enter_parseAnswer ==
    /\ pc = "ready"
    /\ Len(calls) < MaxCalls
    /\ \E copy \in (IF impl = 0 THEN {110, 348, 558} ELSE {impl}) :
          /\ impl' = copy
          /\ console' = EnterParseAnswer(copy, console).console
    /\ calls' = Append(calls, [payload |-> answer, result |-> NoCall,
                               debug |-> <<isDebugEnabled>>])
    /\ pc' = "inside"
    /\ UNCHANGED <<segments, answer, result, chatVars, ENABLE_CITATION_DEBUG>>

\* parseAnswer writes its closing banner and returns, or throws.
Return_parseAnswer ==
    /\ pc = "inside"
    /\ LET run == LeaveParseAnswer(impl, Run(console, NoCall), parseAnswerOf(impl, answer))
       IN  /\ result' = run.value
           /\ console' = run.console
    /\ answer' = ArgumentAfter(answer, result')
    /\ calls' = [calls EXCEPT ![Len(calls)] =
                    [@ EXCEPT !.result = result',
                              !.debug = Append(@, isDebugEnabled)]]
    /\ pc' = "ready"
    /\ UNCHANGED <<segments, impl, chatVars, ENABLE_CITATION_DEBUG>>

NextDebug == SetDebugFlag \/ Enter_parseAnswer \/ Return_parseAnswer

SpecDebug == InitDebug /\ [][NextDebug]_vars

-----------------------------------------------------------------------------
(* Vocabulary of the properties, stated on the input and the result *)

Returned == pc = "done"

StringInput == answer.answer.type = "string"

\* The payload has the shape of AskResponse: a string answer and a pool array.
TypedInput == StringInput /\ IsArray(answer.citations)

Pool == answer.citations.items

IsMarker(i) == segments[i].kind = "marker"

\* The 1-based index N a marker refers to.
MarkerN(i) == Number(segments[i].s)

\* Pool entry N-1 exists.
ValidN(n) == IsArray(answer.citations) /\ n \in 1..Len(Pool) /\ ~Pool[n].isNull

Resolves(i) == IsMarker(i) /\ ValidN(MarkerN(i))

Unresolved(i) == IsMarker(i) /\ ~ValidN(MarkerN(i))

SomeResolves == \E i \in 1..Len(segments) : Resolves(i)

\* Positions where an index N is referenced for the first time.
FirstOfIndex == {i \in 1..Len(segments) :
                    Resolves(i) /\ \A j \in 1..(i - 1) : IsMarker(j) => MarkerN(j) # MarkerN(i)}

\* Positions where a marker text is seen for the first time.
FirstOfText == {i \in 1..Len(segments) :
                   Resolves(i) /\ \A j \in 1..(i - 1) : segments[j] # segments[i]}

\* Rank of position i in the set P of positions, 1 for the smallest.
RankIn(P, i) == Cardinality({j \in P : j <= i})

\* The display number r as a reindex_id.
DisplayId(r) == Some(<<Digits[r + 1]>>)

NumberedFromOne(cs) == \A r \in 1..Len(cs) : cs[r].reindex_id = DisplayId(r)

\* An element the top-level scheme recognizes.
Recognized(e) == ~e.isNull /\ (e.docID # None \/ e.pageSource # None \/ e.URL # None)

RecognizedAt == {i \in 1..Len(Pool) : Recognized(Pool[i])}

\* A message that exposes a citations array to the tool-message scheme.
Exposes(m) ==
    /\ ~m.isNull
    /\ m.role = "tool"
    /\ m.content.kind # "null"
    /\ m.content.kind = "string" => m.content.parses
    /\ m.content.isObject
    /\ IsArray(m.content.citations)

UnparsableTool(m) ==
    ~m.isNull /\ m.role = "tool" /\ m.content.kind = "string" /\ ~m.content.parses

\* <<c, m>>: message m of choice c, for every message of the payload.
MessageAt ==
    IF ~IsArray(answer.choices) THEN {}
    ELSE {cm \in (1..Len(answer.choices.items)) \X (1..(MaxMsgs + 1)) :
             LET ch == answer.choices.items[cm[1]]
             IN  /\ ~ch.isNull
                 /\ IsArray(ch.messages)
                 /\ cm[2] <= Len(ch.messages.items)}

Msg(cm) == answer.choices.items[cm[1]].messages.items[cm[2]]

ExposingAt == {cm \in MessageAt : Exposes(Msg(cm))}

RECURSIVE SumLen(_)
SumLen(S) ==
    IF S = {} THEN 0
    ELSE LET cm == CHOOSE x \in S : TRUE
         IN  Len(Msg(cm).content.citations.items) + SumLen(S \ {cm})

\* Scan order: choice order, then message order.
Before(x, y) == x[1] < y[1] \/ (x[1] = y[1] /\ x[2] < y[2])

\* Offset in the scan of the first citation of message cm.
OffsetOf(cm) == SumLen({x \in ExposingAt : Before(x, cm)})

RawId(pf, field, i) == IF pf.isNull \/ pf[field] = None THEN NumToString(i) ELSE pf[field][1]

-----------------------------------------------------------------------------
(* Properties *)

\* C1: for a string answer with an inline pool in which some marker is valid,
\* parseAnswer returns exactly one citation per distinct valid index N, the
\* r-th citation being the one of the r-th index in order of first appearance,
\* with reindex_id "1".."k".
C1_OneCitationPerIndex ==
    (Returned /\ TypedInput /\ SomeResolves) =>
        /\ result.status = "ok"
        /\ Len(result.citations) = Cardinality(FirstOfIndex)
        /\ \A i \in FirstOfIndex :
              LET r == RankIn(FirstOfIndex, i)
              IN  /\ r <= Len(result.citations)
                  /\ Number(result.citations[r].id) = MarkerN(i)
        /\ NumberedFromOne(result.citations)

\* C2: whenever a marker resolves to a pool entry, every returned citation is
\* inline-derived: its id is the digits of a resolving marker of the text and
\* its fields are those of the pool entry the marker names; there are as many
\* citations as distinct resolving marker texts, so none comes from a tool
\* message or from the top-level fallback.
C2_InlinePrecedence ==
    (Returned /\ TypedInput /\ SomeResolves) =>
        /\ result.status = "ok"
        /\ Len(result.citations) = Cardinality(FirstOfText)
        /\ \A r \in 1..Len(result.citations) :
              \E i \in FirstOfText :
                 /\ result.citations[r].id = segments[i].s
                 /\ result.citations[r].filepath = Pool[MarkerN(i)].filepath
                 /\ result.citations[r].content = Pool[MarkerN(i)].content
                 /\ result.citations[r].metadata = Pool[MarkerN(i)].metadata
                 /\ result.citations[r].url = Pool[MarkerN(i)].url

C2_Witness ==
    /\ Returned
    /\ impl = 348
    /\ SomeResolves
    /\ answer.choices = MixedChoices
    /\ Len(result.citations) = 2

FallbackMaterial ==
    IF impl = 110 THEN Cardinality(RecognizedAt) ELSE SumLen(ExposingAt)

C4_ToolArrayOfK ==
    (Returned /\ TypedInput /\ ~SomeResolves /\ Cardinality(ExposingAt) = 1) =>
        LET cits == Msg(CHOOSE cm \in ExposingAt : TRUE).content.citations.items
        IN  /\ result.status = "ok"
            /\ Len(result.citations) = Len(cits)
            /\ \A r \in 1..Len(cits) :
                  /\ r <= Len(result.citations)
                  /\ result.citations[r].id = RawId(cits[r], "docId", r)
            /\ NumberedFromOne(result.citations)

C4_Witness ==
    /\ Returned
    /\ impl = 348
    /\ TypedInput
    /\ ~SomeResolves
    /\ Cardinality(ExposingAt) = 1
    /\ Len(result.citations) = 2
    /\ result.citations[2].reindex_id = Some(<<"2">>)

\* C5 as stated: with no resolved inline citation and a top-level citations
\* array of length k, the copy with the top-level fallback returns exactly k
\* citations numbered "1".."k".
C5_FlatArrayOfK ==
    (Returned /\ TypedInput /\ ~SomeResolves) =>
        /\ result.status = "ok"
        /\ Len(result.citations) = Len(Pool)
        /\ NumberedFromOne(result.citations)

\* C5 amended: with no resolved inline citation, the copy with the top-level
\* fallback returns exactly one citation per element of the top-level array
\* that carries docID, pageSource or URL, in array order, numbered "1".."k".
C5_FlatRecognizedOfK ==
    (Returned /\ TypedInput /\ ~SomeResolves) =>
        /\ result.status = "ok"
        /\ Len(result.citations) = Cardinality(RecognizedAt)
        /\ \A i \in RecognizedAt :
              LET r == RankIn(RecognizedAt, i)
              IN  /\ r <= Len(result.citations)
                  /\ result.citations[r].id = RawId(Pool[i], "docID", i)
                  /\ result.citations[r].filepath = Pool[i].pageSource
        /\ NumberedFromOne(result.citations)

C5_Witness ==
    /\ Returned
    /\ impl = 110
    /\ TypedInput
    /\ ~SomeResolves
    /\ Len(Pool) = 2
    /\ Cardinality(RecognizedAt) = 2
    /\ Len(result.citations) = 2
    /\ result.citations[2].reindex_id = Some(<<"2">>)

\* C6: when answer.answer is not a string parseAnswer returns null: no
\* citations, no text, no chart.
C6_NonStringGivesNull ==
    (Returned /\ ~StringInput) =>
        /\ result.status = "null"
        /\ result.citations = <<>>
        /\ result.markdownFormatText = <<>>
        /\ result.generated_chart.kind = "undefined"

C6_Witness ==
    /\ Returned
    /\ answer.answer.type = "number"
    /\ answer.generated_chart.kind = "string"
    /\ answer.choices = MixedChoices
    /\ result.status = "null"

\* C7: for every payload whose answer is a string parseAnswer returns a
\* non-null result without throwing.
C7_NeverThrows ==
    (Returned /\ StringInput) => result.status = "ok"

\* C8: a tool message whose content is not valid JSON contributes nothing and
\* does not stop the scan: the copies with the tool-message fallback still
\* return the citations of every other tool message, before or after it, in
\* scan order.
C8_BadJsonSkipped ==
    (Returned /\ TypedInput /\ ~SomeResolves
        /\ \E cm \in MessageAt : UnparsableTool(Msg(cm))) =>
        /\ result.status = "ok"
        /\ Len(result.citations) = SumLen(ExposingAt)
        /\ \A cm \in ExposingAt :
              \A n \in 1..Len(Msg(cm).content.citations.items) :
                 /\ OffsetOf(cm) + n <= Len(result.citations)
                 /\ result.citations[OffsetOf(cm) + n].id =
                       RawId(Msg(cm).content.citations.items[n], "docId", n)

C8_Witness ==
    /\ Returned
    /\ impl = 558
    /\ TypedInput
    /\ \E b \in MessageAt :
          /\ UnparsableTool(Msg(b))
          /\ \E x \in ExposingAt : Before(x, b)
          /\ \E y \in ExposingAt : Before(b, y)
    /\ Len(result.citations) = SumLen(ExposingAt)
    /\ Len(result.citations) >= 2

\* The citation of the result a marker text maps to.
CitationOfMarker(seg) ==
    CHOOSE r \in 1..Len(result.citations) : result.citations[r].id = seg.s

\* The text expected for the pieces: a resolving marker becomes ' ^k^ ' with k
\* the reindex_id of its citation, everything else stays.
RECURSIVE Rendered(_)
Rendered(i) ==
    IF i > Len(segments) THEN <<>>
    ELSE (IF Resolves(i)
          THEN <<" ", "^">> \o result.citations[CitationOfMarker(segments[i])].reindex_id[1]
                   \o <<"^", " ">>
          ELSE SegmentText(segments[i]))
         \o Rendered(i + 1)

\* C9: every occurrence of a marker that resolves to a pool entry is replaced
\* by ' ^k^ ', k being the reindex_id of the citation the marker resolves to.
C9_MarkersReplaced ==
    (Returned /\ TypedInput /\ SomeResolves) =>
        /\ result.status = "ok"
        /\ \A i \in 1..Len(segments) :
              Resolves(i) =>
                 \E r \in 1..Len(result.citations) :
                    /\ result.citations[r].id = segments[i].s
                    /\ result.citations[r].reindex_id # None
        /\ result.markdownFormatText = Rendered(1)

\* 'See [doc1] and [doc2].' becomes 'See  ^1^  and  ^2^ .'
C9_Witness ==
    /\ Returned
    /\ segments = SeeDoc1AndDoc2
    /\ result.markdownFormatText =
          <<"S", "e", "e", " ", " ", "^", "1", "^", " ", " ", "a", "n", "d", " ",
            " ", "^", "2", "^", " ", ".">>

\* Number of occurrences of the string pat in t.
CountOccurrences(t, pat) ==
    Cardinality({i \in 1..Len(t) :
                    i + Len(pat) - 1 <= Len(t) /\ SubSeq(t, i, i + Len(pat) - 1) = pat})

\* C10: a marker whose index has no pool entry stays in the text as it is,
\* produces no citation and consumes no display number: the citations are
\* numbered "1".."n" without a gap.
C10_UnresolvedMarkerKept ==
    (Returned /\ TypedInput /\ \E i \in 1..Len(segments) : Unresolved(i)) =>
        /\ result.status = "ok"
        /\ \A i \in 1..Len(segments) :
              Unresolved(i) =>
                 /\ CountOccurrences(result.markdownFormatText, SegmentText(segments[i]))
                       = CountOccurrences(answer.answer.text, SegmentText(segments[i]))
                 /\ SomeResolves =>
                       \A r \in 1..Len(result.citations) :
                          result.citations[r].id # segments[i].s
        /\ SomeResolves => Len(result.citations) = Cardinality(FirstOfText)
        /\ ~SomeResolves => Len(result.citations) = FallbackMaterial
        /\ NumberedFromOne(result.citations)

C10_Witness ==
    /\ Returned
    /\ TypedInput
    /\ Len(segments) = 3
    /\ Unresolved(1)
    /\ Resolves(2)
    /\ Unresolved(3)
    /\ segments[1] = Marker(<<"0">>)
    /\ Len(result.citations) = 1
    /\ result.citations[1].reindex_id = Some(<<"1">>)

\* Two markers at different places of the text name the same pool entry.
SharedEntry ==
    \E i, j \in 1..Len(segments) :
        i < j /\ Resolves(i) /\ Resolves(j) /\ MarkerN(i) = MarkerN(j)

\* The display number of pool index n: its rank among the indices in order of
\* first reference.
NumberOfIndex(n) ==
    RankIn(FirstOfIndex, CHOOSE i \in FirstOfIndex : MarkerN(i) = n)

\* The text in which every marker of a pool entry carries the number of that
\* entry.
RECURSIVE RenderedByIndex(_)
RenderedByIndex(i) ==
    IF i > Len(segments) THEN <<>>
    ELSE (IF Resolves(i)
          THEN Placeholder(NumberOfIndex(MarkerN(i)))
          ELSE SegmentText(segments[i]))
         \o RenderedByIndex(i + 1)

\* C11: a pool entry referenced by more than one marker appears exactly once
\* in the returned list, keyed on its 1-based index, with the display number
\* its first reference gave it, and every marker that references it is
\* rendered with that number.
C11_SharedEntryOnce ==
    (Returned /\ TypedInput /\ SharedEntry) =>
        /\ result.status = "ok"
        /\ \A i \in FirstOfIndex :
              LET same == {r \in 1..Len(result.citations) :
                              Number(result.citations[r].id) = MarkerN(i)}
              IN  /\ Cardinality(same) = 1
                  /\ \A r \in same :
                        result.citations[r].reindex_id = DisplayId(RankIn(FirstOfIndex, i))
        /\ result.markdownFormatText = RenderedByIndex(1)

\* C12: in every non-null result the ids of the returned citations are
\* pairwise distinct, whichever scheme produced them.
C12_IdsDistinct ==
    (Returned /\ result.status = "ok") =>
        \A r1, r2 \in 1..Len(result.citations) :
            r1 # r2 => result.citations[r1].id # result.citations[r2].id

\* C13: in every non-null result the part_index of the citation at position
\* j is the number of citations at positions 1..j with the same filepath (the
\* null filepath being one group), whatever part_index the citation was built
\* with.
C13_PartIndexCountsFilepath ==
    (Returned /\ result.status = "ok") =>
        \A j \in 1..Len(result.citations) :
            result.citations[j].part_index =
                Some(Cardinality({h \in 1..j :
                        result.citations[h].filepath = result.citations[j].filepath}))

\* Filepaths [f1, f1, null] are numbered [1, 2, 1]; the second citation was
\* built from page 1 and so with part_index 1.
C13_Witness ==
    /\ Returned
    /\ impl = 348
    /\ Len(result.citations) = 3
    /\ result.citations[1].filepath = Some(Str_f1)
    /\ result.citations[2].filepath = Some(Str_f1)
    /\ result.citations[3].filepath = None
    /\ result.citations[2].metadata = Some(StringifyPage(1))
    /\ result.citations[1].part_index = Some(1)
    /\ result.citations[2].part_index = Some(2)
    /\ result.citations[3].part_index = Some(1)

Handed == calls[Len(calls)].payload

\* C16: parseAnswer does not modify its argument: after the call the text,
\* the citations array (its length and every field of every element, id,
\* reindex_id and part_index included), the choices and the chart of the
\* payload are what they were before the call.
C16_ArgumentUnchanged ==
    Returned =>
        /\ answer.answer = Handed.answer
        /\ answer.citations = Handed.citations
        /\ answer.choices = Handed.choices
        /\ answer.generated_chart = Handed.generated_chart

\* '[doc2]...' over two pool entries: the returned citation carries id '2',
\* reindex_id '1' and part_index 1, the pool entry it was copied from still
\* has its own id and neither reindex_id nor part_index.
C16_Witness ==
    /\ Returned
    /\ TypedInput
    /\ Len(segments) >= 1
    /\ segments[1] = Marker(<<"2">>)
    /\ Len(Pool) = 2
    /\ Len(result.citations) >= 1
    /\ result.citations[1].id = <<"2">>
    /\ result.citations[1].reindex_id = Some(<<"1">>)
    /\ result.citations[1].part_index = Some(1)
    /\ Pool[2].id = Some(Str_d1)
    /\ Pool[2].reindex_id = None
    /\ Pool[2].part_index = None

\* C17: only the inline scheme rewrites the text: when no marker resolves to
\* a pool entry, whether the citations come from a fallback or there are
\* none, the text of the result is the text of the payload, character for
\* character.
C17_TextKeptWithoutInline ==
    (Returned /\ StringInput /\ ~SomeResolves /\ result.status = "ok") =>
        /\ Len(result.markdownFormatText) = Len(answer.answer.text)
        /\ \A n \in 1..Len(answer.answer.text) :
              result.markdownFormatText[n] = answer.answer.text[n]

\* '[doc1][doc1234]' over an empty pool, with citations from a tool message:
\* the markers are still in the text.
C17_Witness ==
    /\ Returned
    /\ impl = 348
    /\ segments = <<Marker(<<"1">>), FourDigits>>
    /\ ~SomeResolves
    /\ Len(result.citations) >= 1
    /\ result.markdownFormatText = Flatten(segments)

\* The tool messages of the payload's choices that carry a chart.
ChartAt == {cm \in MessageAt : parsePlotFromMessage(Msg(cm)) # NullChart}

\* The last of them in scan order.
LastChartAt == CHOOSE cm \in ChartAt : \A x \in ChartAt : x = cm \/ Before(x, cm)

\* The tool messages of a response.
ToolsOf(resp) == {i \in 1..Len(resp) : resp[i].role = "tool"}

\* C15: in the chat page, whatever requests came before, the tool message
\* kept for a response is a tool message of that same response, and the empty
\* message when the response has none: nothing of an earlier request is shown
\* with a later response.
C15_ToolMessageOfSameResponse ==
    \A t \in 1..Len(turns) :
        IF ToolsOf(turns[t].response) = {}
        THEN turns[t].toolMessage = EmptyChatMessage
        ELSE \E i \in ToolsOf(turns[t].response) :
                turns[t].toolMessage = turns[t].response[i]

\* A request whose response carries citations, then one whose response has
\* no tool message: nothing is kept for the second.
C15_Witness ==
    /\ Len(turns) >= 2
    /\ turns[1].toolMessage = Message("tool", JsonCitations(<<CitA>>))
    /\ ToolsOf(turns[2].response) = {}
    /\ turns[2].response # <<>>
    /\ turns[2].toolMessage = EmptyChatMessage

\* C18 as stated: the chart of the result is the chart read from the tool
\* messages of the payload's choices when there is one, and otherwise the
\* payload's generated_chart, null when that is absent.
C18_ChartFromToolMessages ==
    (Returned /\ result.status = "ok") =>
        result.generated_chart =
            IF ChartAt # {} THEN parsePlotFromMessage(Msg(LastChartAt))
            ELSE IF Handed.generated_chart.kind = "undefined" THEN NullChart
            ELSE Handed.generated_chart

\* C18 amended: the chart of the result is the payload's generated_chart as
\* it is, undefined when absent, whatever the tool messages of the choices
\* carry.
C18_ChartPassedThrough ==
    (Returned /\ result.status = "ok") =>
        /\ result.generated_chart.kind = Handed.generated_chart.kind
        /\ result.generated_chart.data = Handed.generated_chart.data

\* A tool message of the choices carries the chart 'R0', generated_chart is
\* 'iV': the result has 'iV'.
C18_Witness ==
    /\ Returned
    /\ impl = 348
    /\ answer.choices = ChartChoices
    /\ ChartAt # {}
    /\ answer.generated_chart = StringChart(Str_iV)
    /\ result.generated_chart = StringChart(Str_iV)

\* The message has the shape the chart extraction expects: a tool message
\* whose content is JSON text of an object with a non-empty array of
\* execution results.
HasExecResults(m) ==
    /\ ~m.isNull
    /\ m.role = "tool"
    /\ m.content.kind = "string"
    /\ m.content.parses
    /\ m.content.isObject
    /\ IsArray(m.content.all_exec_results)
    /\ m.content.all_exec_results.items # <<>>

LastExecResult(m) ==
    m.content.all_exec_results.items[Len(m.content.all_exec_results.items)]

\* C19: the chart extracted from a message is the chart field of the last
\* execution result, as a string, and null when the message is not a tool
\* message, its content does not parse, the array is absent or empty, or the
\* last element has no chart; the extraction never throws.
C19_ChartOfLastExecResult ==
    \A t \in 1..Len(turns) :
        LET m == turns[t].toolMessage
            chart == turns[t].generated_chart
        IN  IF HasExecResults(m)
               /\ ~LastExecResult(m).isNull
               /\ LastExecResult(m).code_exec_result.kind \in {"string", "number"}
            THEN /\ chart.kind = "string"
                 /\ chart.data = LastExecResult(m).code_exec_result.data
            ELSE chart = NullChart

\* Two execution results: the chart is the one of the second.
C19_Witness ==
    /\ Len(turns) >= 1
    /\ HasExecResults(turns[1].toolMessage)
    /\ Len(turns[1].toolMessage.content.all_exec_results.items) = 2
    /\ turns[1].toolMessage.content.all_exec_results.items[1].code_exec_result
          = StringChart(Str_iV)
    /\ turns[1].generated_chart = StringChart(Str_R0)

\* C20: in every response the backend formats, a tool message comes right
\* before the assistant message it annotates: when the response has a tool
\* message, the message before each assistant message is a tool message.
C20_ToolBeforeAssistant ==
    pc = "responded" =>
        \A i \in 1..Len(response) :
            (response[i].role = "assistant" /\ ToolsOf(response) # {}) =>
                (i > 1 /\ response[i - 1].role = "tool")

\* The calls that have returned or thrown.
Completed == {i \in 1..Len(calls) : Len(calls[i].debug) = 2}

-----------------------------------------------------------------------------
(* The raw records behind a fallback result *)

\* The result came from the fallback: the call returned a result and no
\* marker of the text resolved.
FromFallback == Returned /\ result.status = "ok" /\ ~SomeResolves

\* The raw record and its 1-based position in the array it came from.
RawAt(raw, pos) == [raw |-> raw, pos |-> pos]

\* A null element has no property.
Fields(raw) == IF raw.isNull THEN EmptyRaw ELSE raw

\* The recognized elements of the top-level array, in array order.
FlatRaws ==
    IF ~IsArray(answer.citations) THEN <<>>
    ELSE [r \in 1..Cardinality(RecognizedAt) |->
             LET i == CHOOSE x \in RecognizedAt : RankIn(RecognizedAt, x) = r
             IN  RawAt(Pool[i], i)]

\* The elements of the citations arrays of the messages S, in scan order.
RECURSIVE ScanRaws(_)
ScanRaws(S) ==
    IF S = {} THEN <<>>
    ELSE LET cm == CHOOSE x \in S : \A y \in S \ {x} : Before(x, y)
             cits == Msg(cm).content.citations.items
         IN  [i \in 1..Len(cits) |-> RawAt(Fields(cits[i]), i)] \o ScanRaws(S \ {cm})

\* The raw records the copy that ran draws its fallback citations from.
FallbackRaws == IF impl = 110 THEN FlatRaws ELSE ScanRaws(ExposingAt)

\* Raw record r has a citation in the result.
Drawn(r) == r <= Len(result.citations)

PageJson(n) == Some(<<"{", "\"", "p", "a", "g", "e", "\"", ":", Digits[n + 1], "}">>)

\* C22 as stated: the metadata of a fallback citation is {"page": p} only if
\* the raw record has a page and no metadata string; a raw record with a
\* metadata string keeps it; with neither, metadata is null.
C22_ExplicitMetadataKept ==
    FromFallback =>
        \A r \in 1..Len(FallbackRaws) :
            LET pf == FallbackRaws[r].raw
            IN  Drawn(r) /\
                result.citations[r].metadata =
                    IF pf.metadata # None THEN pf.metadata
                    ELSE IF pf.page # None THEN PageJson(pf.page[1]) ELSE None

\* C22 amended: the metadata of a fallback citation is {"page": p} whenever
\* the raw record has a page, with or without a metadata string; without a
\* page it is the raw metadata string, or null when there is none.
C22_PageOverridesMetadata ==
    FromFallback =>
        \A r \in 1..Len(FallbackRaws) :
            LET pf == FallbackRaws[r].raw
            IN  Drawn(r) /\
                result.citations[r].metadata =
                    IF pf.page # None THEN PageJson(pf.page[1])
                    ELSE IF pf.metadata # None THEN pf.metadata ELSE None

\* A tool-message element with page 2 and metadata "m" came out with the
\* page object; next to it elements with a metadata string only and with
\* neither.
C22_Witness ==
    /\ FromFallback
    /\ impl = 348
    /\ \E r \in 1..Len(FallbackRaws) :
          /\ FallbackRaws[r].raw.page = Some(2)
          /\ FallbackRaws[r].raw.metadata = Some(Str_meta)
          /\ result.citations[r].metadata = PageJson(2)
    /\ \E r \in 1..Len(FallbackRaws) :
          /\ FallbackRaws[r].raw.page = None
          /\ FallbackRaws[r].raw.metadata = Some(Str_meta)
          /\ result.citations[r].metadata = Some(Str_meta)
    /\ \E r \in 1..Len(FallbackRaws) :
          /\ FallbackRaws[r].raw.page = None
          /\ FallbackRaws[r].raw.metadata = None
          /\ result.citations[r].metadata = None

\* The document-id field of the scheme of the copy that ran.
DocIdField == IF impl = 110 THEN "docID" ELSE "docId"

\* C23: a fallback citation takes its id from the document-id field of the
\* raw record when present, and otherwise the decimal string of the record's
\* 1-based position in the citations array it came from; {} at position 0
\* gives "1".
C23_IdFromDocIdOrPosition ==
    FromFallback =>
        \A r \in 1..Len(FallbackRaws) :
            LET pf == FallbackRaws[r].raw
            IN  Drawn(r) /\
                result.citations[r].id =
                    IF pf[DocIdField] # None THEN pf[DocIdField][1]
                    ELSE <<Digits[FallbackRaws[r].pos + 1]>>

\* A result with an id copied from docId, the id "2" of a second element
\* without docId, and the id "1" of {} found in a later message.
C23_Witness ==
    /\ FromFallback
    /\ impl = 348
    /\ Len(result.citations) = 3
    /\ FallbackRaws[1].raw.docId = Some(Str_TI47)
    /\ result.citations[1].id = Str_TI47
    /\ FallbackRaws[2].raw.docId = None /\ FallbackRaws[2].pos = 2
    /\ result.citations[2].id = <<"2">>
    /\ FallbackRaws[3].raw = EmptyRaw /\ FallbackRaws[3].pos = 1
    /\ result.citations[3].id = <<"1">>

\* C24: a tool-message citation takes its filepath from the raw `source`
\* when present, otherwise from the raw `filepath`, otherwise null; with both
\* present `source` wins.
C24_SourceBeforeFilepath ==
    (FromFallback /\ impl \in {348, 558}) =>
        \A r \in 1..Len(FallbackRaws) :
            LET pf == FallbackRaws[r].raw
            IN  Drawn(r) /\
                result.citations[r].filepath =
                    IF pf.source # None THEN pf.source
                    ELSE IF pf.filepath # None THEN pf.filepath ELSE None

\* Elements with source and filepath, with filepath alone and with neither,
\* in one result.
C24_Witness ==
    /\ FromFallback
    /\ impl = 558
    /\ \E r \in 1..Len(FallbackRaws) :
          /\ FallbackRaws[r].raw.source = Some(Str_f1)
          /\ FallbackRaws[r].raw.filepath = Some(Str_f2)
          /\ result.citations[r].filepath = Some(Str_f1)
    /\ \E r \in 1..Len(FallbackRaws) :
          /\ FallbackRaws[r].raw.source = None
          /\ FallbackRaws[r].raw.filepath = Some(Str_f2)
          /\ result.citations[r].filepath = Some(Str_f2)
    /\ \E r \in 1..Len(FallbackRaws) :
          /\ FallbackRaws[r].raw.source = None
          /\ FallbackRaws[r].raw.filepath = None
          /\ result.citations[r].filepath = None

\* C25: in the flat scheme an element of the top-level array becomes a
\* citation if and only if one of docID, pageSource, URL is non-null; null
\* elements and elements without the three are skipped; the default id of a
\* recognized element is its position in the whole array.
C25_FlatRecognizesKeyedElements ==
    (FromFallback /\ IsArray(answer.citations)) =>
        LET keyed == {i \in 1..Len(Pool) :
                        /\ ~Pool[i].isNull
                        /\ \E f \in {"docID", "pageSource", "URL"} : Pool[i][f] # None}
        IN  /\ Len(result.citations) = Cardinality(keyed)
            /\ \A i \in keyed :
                  LET c == result.citations[Cardinality({j \in keyed : j <= i})]
                  IN  /\ c.url = Pool[i].URL
                      /\ c.filepath = Pool[i].pageSource
                      /\ Pool[i].docID = None => c.id = <<Digits[i + 1]>>

\* An unkeyed element at position 1 is skipped and the keyed element after
\* it, which has no docID, is the only citation, with id "2".
C25_Witness ==
    /\ FromFallback
    /\ impl = 110
    /\ Len(Pool) = 2
    /\ ~Recognized(Pool[1]) /\ ~Pool[1].isNull
    /\ Pool[2].docID = None /\ Pool[2].URL = Some(Str_url)
    /\ Len(result.citations) = 1
    /\ result.citations[1].id = <<"2">>
    /\ result.citations[1].url = Some(Str_url)

\* A message the structured scheme draws from: role "tool", content that is
\* not null, and content (parsed when a string) with a citations array.
Contributes(m) ==
    /\ ~m.isNull
    /\ m.role = "tool"
    /\ m.content.kind # "null"
    /\ IF m.content.kind = "string"
       THEN m.content.parses /\ m.content.isObject /\ IsArray(m.content.citations)
       ELSE m.content.isObject /\ IsArray(m.content.citations)

ContributingAt == {cm \in MessageAt : Contributes(Msg(cm))}

\* C26: in the structured scheme only messages of role "tool" with non-null
\* content exposing a citations array contribute citations; every other
\* message, and a choice without a messages array, contributes none, and
\* parseAnswer still returns a result.
C26_OnlyToolMessagesContribute ==
    (Returned /\ TypedInput /\ ~SomeResolves) =>
        /\ result.status = "ok"
        /\ Len(result.citations) <= SumLen(ContributingAt)
        /\ ContributingAt = {} => result.citations = <<>>

\* An assistant message carrying a citations array and a tool message without
\* one: a result with no citation.
C26_Witness ==
    /\ Returned
    /\ impl = 348
    /\ TypedInput
    /\ ~SomeResolves
    /\ \E cm \in MessageAt :
          /\ Msg(cm).role = "assistant"
          /\ IsArray(Msg(cm).content.citations)
          /\ Msg(cm).content.citations.items # <<>>
    /\ \E cm \in MessageAt :
          /\ Msg(cm).role = "tool"
          /\ Msg(cm).content.kind = "string"
          /\ Msg(cm).content.parses
          /\ ~IsArray(Msg(cm).content.citations)
    /\ result.status = "ok"
    /\ result.citations = <<>>

\* C27: an inline citation is a copy of pool entry N-1 whose id is the digit
\* string of its marker (not the id of the pool record) and whose content,
\* title, filepath, url, metadata and chunk_id are those of the pool record.
C27_InlineCopyOfPoolEntry ==
    (Returned /\ TypedInput /\ SomeResolves) =>
        /\ result.status = "ok"
        /\ \A i \in 1..Len(segments) :
              Resolves(i) =>
                 \E r \in 1..Len(result.citations) :
                    LET c == result.citations[r]
                        entry == Pool[MarkerN(i)]
                    IN  /\ c.id = segments[i].s
                        /\ c.content = entry.content
                        /\ c.title = entry.title
                        /\ c.filepath = entry.filepath
                        /\ c.url = entry.url
                        /\ c.metadata = entry.metadata
                        /\ c.chunk_id = entry.chunk_id
        /\ \A r \in 1..Len(result.citations) :
              \E i \in 1..Len(segments) :
                 Resolves(i) /\ result.citations[r].id = segments[i].s

\* [doc2] over a pool whose second entry has no id of its own and whose
\* first entry has the id "d1": the citation has id "2" and the metadata of
\* the second entry.
C27_Witness ==
    /\ Returned
    /\ TypedInput
    /\ Len(Pool) = 2
    /\ Pool[1].id = Some(Str_d1)
    /\ Pool[2].metadata = Some(Str_meta)
    /\ \E i \in 1..Len(segments) : Resolves(i) /\ segments[i].s = <<"2">>
    /\ \E i \in 1..Len(segments) : Resolves(i) /\ segments[i].s = <<"1">>
    /\ \E r \in 1..Len(result.citations) :
          /\ result.citations[r].id = <<"2">>
          /\ result.citations[r].metadata = Some(Str_meta)
    /\ \E r \in 1..Len(result.citations) :
          /\ result.citations[r].id = <<"1">>
          /\ result.citations[r].filepath = Some(Str_f1)

\* C28: when several tool messages expose a citations array, the structured
\* scheme returns the concatenation of the arrays in scan order (choice,
\* then message, then element): as many citations as the arrays hold
\* together, numbered "1"..total.
C28_ConcatenationInScanOrder ==
    (FromFallback /\ impl \in {348, 558} /\ Cardinality(ExposingAt) >= 2) =>
        /\ Len(result.citations) = SumLen(ExposingAt)
        /\ \A cm \in ExposingAt :
              LET cits == Msg(cm).content.citations.items
              IN  \A i \in 1..Len(cits) :
                     LET r == OffsetOf(cm) + i
                         pf == Fields(cits[i])
                     IN  /\ r <= Len(result.citations)
                         /\ result.citations[r].url = pf.url
                         /\ result.citations[r].title = pf.title
                         /\ result.citations[r].chunk_id = pf.chunk_id
                         /\ result.citations[r].metadata # None <=>
                                (pf.page # None \/ pf.metadata # None)
                         /\ (pf.docId # None => result.citations[r].id = pf.docId[1])
                         /\ result.citations[r].reindex_id = Some(<<Digits[r + 1]>>)

\* Two tool messages in the first choice and one in the second: four
\* citations, the last one from the second choice.
C28_Witness ==
    /\ FromFallback
    /\ impl = 348
    /\ Cardinality(ExposingAt) = 3
    /\ \E cm \in ExposingAt : cm[1] = 2
    /\ Len(result.citations) = 4
    /\ result.citations[1].id = Str_TI47
    /\ result.citations[3].id = Str_TI46
    /\ result.citations[4].id = <<"1">>
    /\ result.citations[4].reindex_id = Some(<<"4">>)

\* Call i + 1 resolved the text call i returned, over the same pool.
ResolvedAgain(i) ==
    /\ i + 1 <= Len(calls)
    /\ calls[i].result.status = "ok"
    /\ calls[i + 1].payload.answer = StringAnswer(calls[i].result.markdownFormatText)
    /\ calls[i + 1].payload.citations = calls[i].payload.citations

\* The index a marker text refers to.
IndexOfLink(link) == Number(SubSeq(link, 5, Len(link) - 1))

\* C29: text rewriting is idempotent: resolving the markdownFormatText of an
\* earlier resolution over the same citation pool returns that text
\* unchanged; the markers left in it refer to no entry of the pool.
C29_RewritingIdempotent ==
    \A i \in 1..Len(calls) :
        ResolvedAgain(i) =>
            /\ calls[i + 1].result.status = "ok"
            /\ calls[i + 1].result.markdownFormatText = calls[i].result.markdownFormatText
            /\ LET left == MatchLinks(calls[i].result.markdownFormatText)
               IN  \A l \in 1..Len(left) : ~ValidN(IndexOfLink(left[l]))

\* A first resolution that replaced a marker and left another in the text,
\* and a second resolution of that text.
C29_Witness ==
    /\ Returned
    /\ Len(calls) >= 2
    /\ ResolvedAgain(1)
    /\ calls[1].result.citations # <<>>
    /\ calls[1].result.citations[1].reindex_id = Some(<<"1">>)
    /\ calls[1].result.markdownFormatText # calls[1].payload.answer.text
    /\ MatchLinks(calls[1].result.markdownFormatText) # <<>>
    /\ calls[2].result.markdownFormatText = calls[1].result.markdownFormatText

\* The messages of role r of a response.
OfRole(resp, r) == {i \in 1..Len(resp) : resp[i].role = r}

\* What was kept for a response under role r is the last message of that role
\* in the response, and the empty message when it has none.
KeptOwn(resp, kept, r) ==
    IF OfRole(resp, r) = {} THEN kept = EmptyChatMessage
    ELSE kept = resp[CHOOSE i \in OfRole(resp, r) : \A j \in OfRole(resp, r) : j <= i]

\* C30: with two requests under way at once, for every interleaving of their
\* steps, the tool message and the assistant message kept for a response are
\* messages of that same response.
C30_InFlightResponsesKeptApart ==
    \A t \in 1..Len(turns) :
        /\ KeptOwn(turns[t].response, turns[t].toolMessage, "tool")
        /\ KeptOwn(turns[t].response, turns[t].assistantMessage, "assistant")

====
